---------------------------- MODULE Spec2Model ----------------------------
(***************************************************************************)
(* A model of rusty-image-tools-wasm (src/src/lib.rs): EXIF orientation    *)
(* reading and correction, RGB -> HSB conversion, the greedy unique-colour *)
(* extraction, and the two exported entry points analyze_image and         *)
(* resize_image.                                                           *)
(*                                                                         *)
(* The image codec and the EXIF reader are external crates.  An encoded    *)
(* byte buffer is modelled by what those crates report about it: whether   *)
(* it decodes, the pixel grid it decodes to, and the outcome of the EXIF   *)
(* container parse.                                                        *)
(***************************************************************************)
EXTENDS Integers, Sequences, FiniteSets, TLC

VARIABLES
    image_data,     \* the byte buffer handed to analyze_image / resize_image
    all_colors,     \* get_unique_colors: key order of the tally in the last call
    result,         \* return value of the last call
    request,        \* arguments of the last resize_image call
    img,            \* apply_orientation: the image passed in
    orientation,    \* apply_orientation: the orientation code passed in
    oriented,       \* apply_orientation: the image returned
    rgb,            \* rgb_to_hsb: the pixel passed in
    hsb             \* rgb_to_hsb: the triple returned

vars == <<image_data, all_colors, result, request, img, orientation, oriented, rgb, hsb>>

-----------------------------------------------------------------------------
(***************************************************************************)
(* f32 arithmetic.  A finite f32 is [neg, m, e] standing for               *)
(* (-1)^neg * m * 2^e with 2^23 <= m < 2^24, or m = 0 for zero (e = 0,     *)
(* neg = FALSE: the code never distinguishes -0.0 from 0.0).  Every value  *)
(* the code computes has a magnitude between 2^-40 and 2^10, so neither    *)
(* subnormals nor infinities nor NaN arise.  All operations round to       *)
(* nearest, ties to even, as IEEE 754 binary32 does.                       *)
(***************************************************************************)

RECURSIVE BitLen(_)
BitLen(n) == IF n = 0 THEN 0 ELSE 1 + BitLen(n \div 2)

F32Zero == [neg |-> FALSE, m |-> 0, e |-> 0]

\* The f32 nearest to (-1)^neg * (M + s) * 2^E, where 0 < s < 1 if sticky
\* and s = 0 otherwise.  Callers pass at least 25 bits of M when sticky.
F32Round(neg, M, E, sticky) ==
    IF M = 0 THEN F32Zero
    ELSE LET nb == BitLen(M) IN
         IF nb <= 24
         THEN [neg |-> neg, m |-> M * 2^(24 - nb), e |-> E - (24 - nb)]
         ELSE LET sh   == nb - 24
                  q    == M \div 2^sh
                  r    == M % 2^sh
                  half == 2^(sh - 1)
                  up   == r > half \/ (r = half /\ (sticky \/ q % 2 = 1))
                  q2   == IF up THEN q + 1 ELSE q
              IN IF q2 = 2^24
                 THEN [neg |-> neg, m |-> 2^23, e |-> E + sh + 1]
                 ELSE [neg |-> neg, m |-> q2, e |-> E + sh]

\* `n as f32` for a small non-negative integer (exact).
F32FromInt(n) == F32Round(FALSE, n, 0, FALSE)

F32Neg(a) == IF a.m = 0 THEN a ELSE [a EXCEPT !.neg = ~a.neg]

F32Abs(a) == [a EXCEPT !.neg = FALSE]

\* |a| < |b|
F32MagLt(a, b) ==
    IF b.m = 0 THEN FALSE
    ELSE IF a.m = 0 THEN TRUE
    ELSE a.e < b.e \/ (a.e = b.e /\ a.m < b.m)

F32Lt(a, b) ==
    IF a.neg /\ ~b.neg THEN TRUE
    ELSE IF ~a.neg /\ b.neg THEN FALSE
    ELSE IF a.neg THEN F32MagLt(b, a)
    ELSE F32MagLt(a, b)

F32Gt(a, b) == F32Lt(b, a)

F32Max(a, b) == IF F32Lt(a, b) THEN b ELSE a

F32Min(a, b) == IF F32Lt(b, a) THEN b ELSE a

\* a + b
F32Add(a, b) ==
    IF a.m = 0 THEN b
    ELSE IF b.m = 0 THEN a
    ELSE LET big   == IF F32MagLt(a, b) THEN b ELSE a
             small == IF F32MagLt(a, b) THEN a ELSE b
             d     == big.e - small.e
             Mb    == big.m * 8
             Ms    == IF d >= 27 THEN 0 ELSE (small.m * 8) \div 2^d
             lost  == IF d >= 27 THEN TRUE ELSE (small.m * 8) % 2^d # 0
         IN IF big.neg = small.neg
            THEN F32Round(big.neg, Mb + Ms, big.e - 3, lost)
            ELSE F32Round(big.neg, Mb - Ms - (IF lost THEN 1 ELSE 0),
                          big.e - 3, lost)

\* a - b
F32Sub(a, b) == F32Add(a, F32Neg(b))

\* a * b
F32Mul(a, b) ==
    IF a.m = 0 \/ b.m = 0 THEN F32Zero
    ELSE LET ah  == a.m \div 4096
             al  == a.m % 4096
             bh  == b.m \div 4096
             bl  == b.m % 4096
             mid == ah * bl + al * bh
             low == (mid % 4096) * 4096 + al * bl
             lo  == low % 2^24
             hi  == ah * bh + mid \div 4096 + low \div 2^24
         IN F32Round(a.neg # b.neg, hi * 4 + lo \div 2^22,
                     a.e + b.e + 22, lo % 2^22 # 0)

\* n more quotient bits of r / d by long division: <<quotient, remainder>>
RECURSIVE LongDiv(_, _, _, _)
LongDiv(r, d, n, q) ==
    IF n = 0 THEN <<q, r>>
    ELSE IF 2 * r >= d THEN LongDiv(2 * r - d, d, n - 1, 2 * q + 1)
    ELSE LongDiv(2 * r, d, n - 1, 2 * q)

\* a / b, for b # 0
F32Div(a, b) ==
    IF a.m = 0 THEN F32Zero
    ELSE LET qr == LongDiv(a.m % b.m, b.m, 26, a.m \div b.m)
         IN F32Round(a.neg # b.neg, qr[1], a.e - b.e - 26, qr[2] # 0)

\* (x * 2^n) mod d
RECURSIVE ShiftMod(_, _, _)
ShiftMod(x, n, d) == IF n = 0 THEN x % d ELSE ShiftMod((2 * x) % d, n - 1, d)

\* a % b of Rust (C's fmod): exact, with the sign of a; for b # 0
F32Rem(a, b) ==
    IF F32MagLt(a, b) THEN a
    ELSE IF a.e >= b.e
         THEN F32Round(a.neg, ShiftMod(a.m, a.e - b.e, b.m), b.e, FALSE)
         ELSE F32Round(a.neg, a.m % (b.m * 2^(b.e - a.e)), a.e, FALSE)

\* The value of a decimal literal num/den written in the source.
F32Lit(num, den) == F32Div(F32FromInt(num), F32FromInt(den))

-----------------------------------------------------------------------------
(***************************************************************************)
(* Colour space converter                                                  *)
(***************************************************************************)

\* rgb_to_hsb: an RGB pixel <<r, g, b>> to <<hue, saturation, brightness>>
rgb_to_hsb(p) ==
    LET r     == F32Div(F32FromInt(p[1]), F32FromInt(255))
        g     == F32Div(F32FromInt(p[2]), F32FromInt(255))
        b     == F32Div(F32FromInt(p[3]), F32FromInt(255))
        max   == F32Max(r, F32Max(g, b))
        min   == F32Min(r, F32Min(g, b))
        delta == F32Sub(max, min)
        hue   == IF delta = F32Zero THEN F32Zero
                 ELSE IF max = r
                 THEN F32Mul(F32FromInt(60),
                             F32Rem(F32Div(F32Sub(g, b), delta), F32FromInt(6)))
                 ELSE IF max = g
                 THEN F32Mul(F32FromInt(60),
                             F32Add(F32Div(F32Sub(b, r), delta), F32FromInt(2)))
                 ELSE F32Mul(F32FromInt(60),
                             F32Add(F32Div(F32Sub(r, g), delta), F32FromInt(4)))
        saturation == IF max = F32Zero THEN F32Zero ELSE F32Div(delta, max)
    IN <<hue, saturation, max>>

\* hsb_diff: <<saturation_diff, brightness_diff, hue_diff>>
hsb_diff(hsb1, hsb2) ==
    <<F32Abs(F32Sub(hsb1[2], hsb2[2])),
      F32Abs(F32Sub(hsb1[3], hsb2[3])),
      F32Abs(F32Sub(hsb1[1], hsb2[1]))>>

-----------------------------------------------------------------------------
(***************************************************************************)
(* Orientation transformer.  A DynamicImage is [kind, rows]: the pixel     *)
(* layout and the grid as a sequence of rows, top to bottom, each a        *)
(* sequence of RGB pixels, left to right.  The geometric operations are    *)
(* those of the image crate: rotate90 turns clockwise.                     *)
(***************************************************************************)

Width(im) == Len(im.rows[1])

Height(im) == Len(im.rows)

\* img.fliph(): pixel (x, y) goes to (w - 1 - x, y)
fliph(im) ==
    [im EXCEPT !.rows = [r \in 1..Height(im) |->
                            [c \in 1..Width(im) |-> im.rows[r][Width(im) + 1 - c]]]]

\* img.flipv(): pixel (x, y) goes to (x, h - 1 - y)
flipv(im) ==
    [im EXCEPT !.rows = [r \in 1..Height(im) |->
                            [c \in 1..Width(im) |-> im.rows[Height(im) + 1 - r][c]]]]

\* img.rotate90(): pixel (x, y) goes to (h - 1 - y, x); the result is h wide, w high
rotate90(im) ==
    [im EXCEPT !.rows = [r \in 1..Width(im) |->
                            [c \in 1..Height(im) |-> im.rows[Height(im) + 1 - c][r]]]]

\* img.rotate180(): pixel (x, y) goes to (w - 1 - x, h - 1 - y)
rotate180(im) ==
    [im EXCEPT !.rows = [r \in 1..Height(im) |->
                            [c \in 1..Width(im) |->
                                im.rows[Height(im) + 1 - r][Width(im) + 1 - c]]]]

\* img.rotate270(): pixel (x, y) goes to (y, w - 1 - x); the result is h wide, w high
rotate270(im) ==
    [im EXCEPT !.rows = [r \in 1..Width(im) |->
                            [c \in 1..Height(im) |-> im.rows[c][Width(im) + 1 - r]]]]

\* apply_orientation with the rotation of codes 5 and 7 done before the flip
apply_orientation_rotate_first(im, o) ==
    CASE o = 1 -> im
      [] o = 2 -> fliph(im)
      [] o = 3 -> rotate180(im)
      [] o = 4 -> flipv(im)
      [] o = 5 -> fliph(rotate270(im))
      [] o = 6 -> rotate90(im)
      [] o = 7 -> fliph(rotate90(im))
      [] o = 8 -> rotate270(im)
      [] OTHER -> im

\* apply_orientation with the rotations of codes 6 and 8 exchanged
apply_orientation_turned(im, o) ==
    CASE o = 1 -> im
      [] o = 2 -> fliph(im)
      [] o = 3 -> rotate180(im)
      [] o = 4 -> flipv(im)
      [] o = 5 -> rotate270(fliph(im))
      [] o = 6 -> rotate270(im)
      [] o = 7 -> rotate90(fliph(im))
      [] o = 8 -> rotate90(im)
      [] OTHER -> im

\* apply_orientation(img, orientation), orientation a u16
apply_orientation(im, o) ==
    CASE o = 1 -> im
      [] o = 2 -> fliph(im)
      [] o = 3 -> rotate180(im)
      [] o = 4 -> flipv(im)
      [] o = 5 -> rotate270(fliph(im))
      [] o = 6 -> rotate90(im)
      [] o = 7 -> rotate90(fliph(im))
      [] o = 8 -> rotate270(im)
      [] OTHER -> im

-----------------------------------------------------------------------------
(***************************************************************************)
(* EXIF.  The outcome of Reader::read_from_container on a byte buffer is   *)
(* [ok, err, fields]: Ok(exif) with the fields in file order, or Err(e)    *)
(* with e's message.  A field is [tag, ifd, value, display]: value is      *)
(* [type, data], display the string field.display_value().with_unit()      *)
(* renders.                                                                *)
(***************************************************************************)

None == [some |-> FALSE]

Some(x) == [some |-> TRUE, v |-> x]

\* exif.get_field(tag, ifd)
get_field(exif, tag, ifd) ==
    LET hits == {i \in 1..Len(exif.fields) :
                    exif.fields[i].tag = tag /\ exif.fields[i].ifd = ifd}
    IN IF hits = {} THEN None
       ELSE Some(exif.fields[CHOOSE i \in hits : \A j \in hits : i <= j])

\* value.get_uint(index): only BYTE, SHORT and LONG values hold unsigned integers
get_uint(value, index) ==
    IF value.type \in {"BYTE", "SHORT", "LONG"} /\ index + 1 <= Len(value.data)
    THEN Some(value.data[index + 1])
    ELSE None

\* read_orientation without the cast to u16
read_orientation_wide(data) ==
    IF data.exif.ok
    THEN LET field == get_field(data.exif, "Orientation", "PRIMARY")
         IN IF field.some
            THEN LET val == get_uint(field.v.value, 0)
                 IN IF val.some THEN val.v ELSE 1
            ELSE 1
    ELSE 1

\* read_orientation(image_data) -> u16
read_orientation(data) ==
    IF data.exif.ok
    THEN LET field == get_field(data.exif, "Orientation", "PRIMARY")
         IN IF field.some
            THEN LET val == get_uint(field.v.value, 0)
                 IN IF val.some THEN val.v % 2^16 ELSE 1
            ELSE 1
    ELSE 1

\* parse_exif_data dropping the read error
parse_exif_data_silent(data) ==
    IF data.exif.ok
    THEN [i \in 1..Len(data.exif.fields) |->
             <<data.exif.fields[i].tag, data.exif.fields[i].display>>]
    ELSE <<>>

\* parse_exif_data(image_data) -> Vec<[String; 2]>
parse_exif_data(data) ==
    IF data.exif.ok
    THEN [i \in 1..Len(data.exif.fields) |->
             <<data.exif.fields[i].tag, data.exif.fields[i].display>>]
    ELSE << <<"Failed to read EXIF data", data.exif.err>> >>

-----------------------------------------------------------------------------
(***************************************************************************)
(* The colour tally                                                        *)
(***************************************************************************)

\* A call that panics (a trap in the wasm build): nothing is returned.
Panic(site, msg) == [status |-> "panic", site |-> site, msg |-> msg]

\* img.pixels(): every pixel, row by row
RECURSIVE pixels_from(_, _)
pixels_from(im, r) ==
    IF r > Height(im) THEN <<>> ELSE im.rows[r] \o pixels_from(im, r + 1)

pixels(im) == pixels_from(im, 1)

\* color_count after the tally loop: occurrences of each distinct RGB value
color_count(im) ==
    LET px == pixels(im)
    IN [c \in {px[i] : i \in 1..Len(px)} |->
           Cardinality({i \in 1..Len(px) : px[i] = c})]

-----------------------------------------------------------------------------
(***************************************************************************)
(* Resize pipeline.  Resampling and encoding are the codec's: a resized    *)
(* image is recorded as what the resampler was given, the encoded bytes as *)
(* what the encoder was given.  Whether the encoder accepts is the         *)
(* codec's answer, passed in as encodes.                                   *)
(***************************************************************************)

\* DynamicImage::ImageRgb8(img.to_rgb8())
to_rgb8(im) == [im EXCEPT !.kind = "ImageRgb8"]

\* match filter { ... }
filter_type(filter) ==
    CASE filter = "catmull_rom" -> "CatmullRom"
      [] filter = "gaussian"    -> "Gaussian"
      [] filter = "lanczos3"    -> "Lanczos3"
      [] filter = "nearest"     -> "Nearest"
      [] filter = "triangle"    -> "Triangle"
      [] OTHER                  -> "Triangle"

\* the format match defaulting to jpeg
image_format_jpeg(format) ==
    CASE format = "png"  -> "Png"
      [] format = "webp" -> "WebP"
      [] format = "jpeg" -> "Jpeg"
      [] format = "avif" -> "Avif"
      [] format = "bmp"  -> "Bmp"
      [] format = "gif"  -> "Gif"
      [] format = "tiff" -> "Tiff"
      [] format = "ico"  -> "Ico"
      [] OTHER           -> "Jpeg"

\* match format { ... }
image_format(format) ==
    CASE format = "png"  -> "Png"
      [] format = "webp" -> "WebP"
      [] format = "jpeg" -> "Jpeg"
      [] format = "avif" -> "Avif"
      [] format = "bmp"  -> "Bmp"
      [] format = "gif"  -> "Gif"
      [] format = "tiff" -> "Tiff"
      [] format = "ico"  -> "Ico"
      [] OTHER           -> "Png"

\* img.resize_to_fill(width, height, filter_type)
resize_to_fill(im, width, height, ft) ==
    [kind |-> im.kind, width |-> width, height |-> height,
     filter |-> ft, source |-> im.rows]

\* resize_image(image_data, width, height, format, filter)
resize_image(data, width, height, format, filter, encodes) ==
    IF ~data.decodable
    THEN Panic("load_from_memory", "unwrap on an Err value")
    ELSE LET o       == read_orientation(data)
             turned  == apply_orientation(data.image, o)
             im      == IF format = "jpeg" THEN to_rgb8(turned) ELSE turned
             resized == resize_to_fill(im, width, height, filter_type(filter))
         IN IF encodes
            THEN [status |-> "ok",
                  bytes  |-> [format |-> image_format(format), image |-> resized]]
            ELSE Panic("write_to", "unwrap on an Err value")

-----------------------------------------------------------------------------
(***************************************************************************)
(* Inputs                                                                  *)
(***************************************************************************)

MaxColors == 3      \* distinct colours of a palette image
MaxPermKeys == 3    \* tallies up to this size are iterated in every order
GradientLen == 22   \* pixels (all distinct) of the gradient image
MaxDim == 2         \* sides of the images apply_orientation is tried on
MaxSide == 2        \* target width and height of a resize request
MaxTag == 9         \* orientation tag values 0..MaxTag and 2^16 + (0..MaxTag)
NumLevels == 6      \* channel values rgb_to_hsb is tried on, per channel

\* before any call: nothing returned, no buffer
NoResult == [status |-> "none"]

NoImage == [kind |-> "none", rows |-> <<>>]

NoData == [decodable |-> FALSE, image |-> NoImage, exif |-> [ok |-> FALSE, err |-> "", fields |-> <<>>]]

\* w x h, every pixel different
TestImage(kind, w, h) ==
    [kind |-> kind,
     rows |-> [r \in 1..h |-> [c \in 1..w |-> <<40 * c, 40 * r, 7>>]]]

Palette == << <<255, 128, 128>>, <<0, 128, 0>>, <<40, 40, 60>>,
              <<200, 20, 120>>, <<0, 0, 0>>, <<255, 255, 255>> >>

RECURSIVE PaletteRow(_)
PaletteRow(S) ==
    IF S = {} THEN <<>>
    ELSE LET i == CHOOSE k \in S : \A j \in S : k <= j
         IN <<Palette[i]>> \o PaletteRow(S \ {i})

\* one row holding the palette colours S, a 2 x 2 image of one colour, a gradient
PaletteImages ==
    {[kind |-> "ImageRgb8", rows |-> <<PaletteRow(S)>>] :
        S \in {T \in SUBSET (1..Len(Palette)) : T # {} /\ Cardinality(T) <= MaxColors}}

SolidImages ==
    {[kind |-> "ImageRgba8", rows |-> <<<<Palette[i], Palette[i]>>,
                                        <<Palette[i], Palette[i]>>>>] :
        i \in 1..Len(Palette)}

GradientImage ==
    [kind |-> "ImageRgb8",
     rows |-> <<[i \in 1..GradientLen |-> <<11 * (i - 1), 255 - 11 * (i - 1), 128>>]>>]

ExifErr == [ok |-> FALSE, err |-> "Unknown image format", fields |-> <<>>]

ExifOk(fields) == [ok |-> TRUE, err |-> "", fields |-> fields]

MakeField ==
    [tag |-> "Make", ifd |-> "PRIMARY",
     value |-> [type |-> "ASCII", data |-> <<>>], display |-> "Canon"]

OrientationField(ifd, type, data) ==
    [tag |-> "Orientation", ifd |-> ifd,
     value |-> [type |-> type, data |-> data], display |-> "orientation"]

TagVals == (0..MaxTag) \cup {2^16 + v : v \in 0..MaxTag} \cup {2^16 - 1}

Exifs ==
    {ExifErr, ExifOk(<<>>), ExifOk(<<MakeField>>),
     ExifOk(<<OrientationField("PRIMARY", "ASCII", <<>>)>>),
     ExifOk(<<OrientationField("PRIMARY", "SHORT", <<>>)>>),
     ExifOk(<<MakeField, OrientationField("THUMBNAIL", "SHORT", <<6>>)>>)}
    \cup {ExifOk(<<MakeField, OrientationField("PRIMARY", "LONG", <<v>>)>>) :
             v \in TagVals}

\* a buffer the codec cannot decode carries no image
Undecodable(exif) == [decodable |-> FALSE, image |-> NoImage, exif |-> exif]

Decodable(im, exif) == [decodable |-> TRUE, image |-> im, exif |-> exif]

AnalyzeExifs ==
    {ExifErr, ExifOk(<<>>),
     ExifOk(<<MakeField, OrientationField("PRIMARY", "SHORT", <<6>>)>>)}

AnalyzeInputs ==
    {Undecodable(x) : x \in AnalyzeExifs}
    \cup {Decodable(im, x) :
             im \in PaletteImages \cup SolidImages \cup {GradientImage},
             x \in AnalyzeExifs}

ResizeInputs ==
    {Undecodable(x) : x \in {ExifErr, ExifOk(<<MakeField>>)}}
    \cup {Decodable(TestImage("ImageRgba8", 2, 3), x) : x \in Exifs}

FormatTags ==
    {"png", "webp", "jpeg", "avif", "bmp", "gif", "tiff", "ico", "", "PNG", "jpg"}

FilterTags ==
    {"catmull_rom", "gaussian", "lanczos3", "nearest", "triangle", "", "bilinear"}

\* The orders in which the tally of an image may be iterated.  The HashMap of std
\* iterates in bucket order, which depends on the hasher's per-map random keys:
\* any order of the keys can come out.  Up to MaxPermKeys keys every order is
\* tried; beyond, the rotations of the first-occurrence order and of its reverse.
RECURSIVE Dedup(_, _)
Dedup(seq, seen) ==
    IF seq = <<>> THEN <<>>
    ELSE IF Head(seq) \in seen THEN Dedup(Tail(seq), seen)
    ELSE <<Head(seq)>> \o Dedup(Tail(seq), seen \cup {Head(seq)})

Rotate(seq, k) == SubSeq(seq, k + 1, Len(seq)) \o SubSeq(seq, 1, k)

Reverse(seq) == [i \in 1..Len(seq) |-> seq[Len(seq) + 1 - i]]

TallyOrders(data) ==
    IF ~data.decodable THEN {<<>>}
    ELSE LET keys == DOMAIN color_count(data.image)
             n    == Cardinality(keys)
             base == Dedup(pixels(data.image), {})
         IN IF n <= MaxPermKeys
            THEN {seq \in [1..n -> keys] : \A i, j \in 1..n : i # j => seq[i] # seq[j]}
            ELSE {Rotate(base, k) : k \in 0..(n - 1)}
                 \cup {Rotate(Reverse(base), k) : k \in 0..(n - 1)}

Levels == {(255 * i) \div (NumLevels - 1) : i \in 0..(NumLevels - 1)}

-----------------------------------------------------------------------------
(***************************************************************************)
(* Unique colour selection and the analysis                                *)
(***************************************************************************)

MaxUnique == 20

\* the literals 0.1 and 10.0
Tenth == F32Lit(1, 10)

Ten == F32FromInt(10)

\* rgb_to_hsb over the colours of the inputs, computed once
InputColors ==
    {Palette[i] : i \in 1..Len(Palette)}
    \cup {GradientImage.rows[1][i] : i \in 1..GradientLen}

hsb_table == [c \in InputColors |-> rgb_to_hsb(c)]

\* sat_diff > 0.1 && bri_diff > 0.1 && hue_diff > 10.0, for d = hsb_diff(..)
far_apart(d) == F32Gt(d[1], Tenth) /\ F32Gt(d[2], Tenth) /\ F32Gt(d[3], Ten)

\* the same with || for &&: far on one axis is enough
far_on_one_axis(d) == F32Gt(d[1], Tenth) \/ F32Gt(d[2], Tenth) \/ F32Gt(d[3], Ten)

\* the closure testing with far_on_one_axis
accepts_or(color, unique_colors) ==
    \A i \in 1..Len(unique_colors) :
        far_on_one_axis(hsb_diff(hsb_table[color], hsb_table[unique_colors[i]]))

\* the closure passed to all(): the candidate is far from every accepted colour
accepts(color, unique_colors) ==
    \A i \in 1..Len(unique_colors) :
        far_apart(hsb_diff(hsb_table[color], hsb_table[unique_colors[i]]))

RECURSIVE select(_, _, _)
RECURSIVE select_stop(_, _, _)

\* the selection loop leaving at the first colour turned down
select_stop(keys, i, unique_colors) ==
    IF i > Len(keys) THEN unique_colors
    ELSE IF accepts(keys[i], unique_colors)
         THEN LET pushed == Append(unique_colors, keys[i])
              IN IF Len(pushed) >= MaxUnique THEN pushed
                 ELSE select_stop(keys, i + 1, pushed)
         ELSE unique_colors

\* the selection loop over all_colors, from index i on
select(keys, i, unique_colors) ==
    IF i > Len(keys) THEN unique_colors
    ELSE IF accepts(keys[i], unique_colors)
         THEN LET pushed == Append(unique_colors, keys[i])
              IN IF Len(pushed) >= MaxUnique THEN pushed
                 ELSE select(keys, i + 1, pushed)
         ELSE select(keys, i + 1, unique_colors)

HexDigits == <<"0", "1", "2", "3", "4", "5", "6", "7",
               "8", "9", "A", "B", "C", "D", "E", "F">>

\* {:02X}
hex2(n) == HexDigits[(n \div 16) + 1] \o HexDigits[(n % 16) + 1]

\* "#{:02X}{:02X}{:02X}"
hex_color(color) == "#" \o hex2(color[1]) \o hex2(color[2]) \o hex2(color[3])

\* results: each colour as a hex string
results(unique_colors) ==
    [i \in 1..Len(unique_colors) |-> hex_color(unique_colors[i])]

\* get_unique_colors rendering all_colors instead of unique_colors
get_unique_colors_all(data, keys) ==
    IF ~data.decodable THEN Panic("load_from_memory", "Failed to load image")
    ELSE [status |-> "ok", value |-> results(keys)]

\* get_unique_colors(image_data), the tally being iterated in the order keys
get_unique_colors(data, keys) ==
    IF ~data.decodable THEN Panic("load_from_memory", "Failed to load image")
    ELSE [status |-> "ok", value |-> results(select(keys, 1, <<>>))]

\* the ImageAnalysis handed to to_value, unless get_unique_colors panicked;
\* serialising two vectors of strings cannot fail
ImageAnalysis(exif_data, unique_colors) ==
    IF unique_colors.status = "panic" THEN unique_colors
    ELSE [status |-> "ok", exif_data |-> exif_data,
          unique_colors |-> unique_colors.value]

\* analyze_image(image_data)
analyze_image(data, keys) ==
    ImageAnalysis(parse_exif_data(data), get_unique_colors(data, keys))

-----------------------------------------------------------------------------
(***************************************************************************)
(* The entry points.  Each call is one step: nothing outlives a call.      *)
(***************************************************************************)

\* analyze_image(image_data)
AnalyzeImage ==
    \E keys \in TallyOrders(image_data) :
        /\ all_colors' = keys
        /\ result' = analyze_image(image_data, keys)
        /\ UNCHANGED <<image_data, request, img, orientation, oriented, rgb, hsb>>

\* resize_image(image_data, width, height, format, filter)
ResizeImage ==
    /\ result = NoResult
    /\ \E width \in 1..MaxSide, height \in 1..MaxSide,
          format \in FormatTags, filter \in FilterTags, encodes \in BOOLEAN :
        /\ request' = Some([width |-> width, height |-> height,
                            format |-> format, filter |-> filter])
        /\ result' = resize_image(image_data, width, height, format, filter, encodes)
        /\ IF image_data.decodable
           THEN /\ img' = Some(image_data.image)
                /\ orientation' = Some(read_orientation(image_data))
                /\ oriented' = Some(apply_orientation(image_data.image,
                                                      read_orientation(image_data)))
           ELSE UNCHANGED <<img, orientation, oriented>>
        /\ UNCHANGED <<image_data, all_colors, rgb, hsb>>

\* apply_orientation(img, orientation)
ApplyOrientation ==
    /\ ~oriented.some
    /\ oriented' = Some(apply_orientation(img.v, orientation.v))
    /\ UNCHANGED <<image_data, all_colors, result, request, img, orientation, rgb, hsb>>

\* rgb_to_hsb(rgb)
RgbToHsb ==
    /\ ~hsb.some
    /\ hsb' = Some(rgb_to_hsb(rgb.v))
    /\ UNCHANGED <<image_data, all_colors, result, request, img, orientation,
                   oriented, rgb>>

\* analyze_image, called any number of times on an input
Init ==
    /\ image_data \in AnalyzeInputs
    /\ all_colors = <<>> /\ result = NoResult /\ request = None
    /\ img = None /\ orientation = None /\ oriented = None
    /\ rgb = None /\ hsb = None

Next == AnalyzeImage

Spec == Init /\ [][Next]_vars

\* resize_image, called on an input
InitResize ==
    /\ image_data \in ResizeInputs
    /\ all_colors = <<>> /\ result = NoResult /\ request = None
    /\ img = None /\ orientation = None /\ oriented = None
    /\ rgb = None /\ hsb = None

NextResize == ResizeImage

SpecResize == InitResize /\ [][NextResize]_vars

\* apply_orientation on every u16 code
InitOrient ==
    /\ img \in {Some(TestImage("ImageRgba8", w, h)) : w \in 1..MaxDim, h \in 1..MaxDim}
    /\ orientation \in {Some(o) : o \in 0..(2^16 - 1)}
    /\ oriented = None
    /\ image_data = NoData /\ all_colors = <<>> /\ result = NoResult
    /\ request = None /\ rgb = None /\ hsb = None

NextOrient == ApplyOrientation

SpecOrient == InitOrient /\ [][NextOrient]_vars

\* rgb_to_hsb on a grid of pixels
InitHsb ==
    /\ rgb \in {Some(p) : p \in Levels \X Levels \X Levels}
    /\ hsb = None
    /\ image_data = NoData /\ all_colors = <<>> /\ result = NoResult
    /\ request = None /\ img = None /\ orientation = None /\ oriented = None

NextHsb == RgbToHsb

SpecHsb == InitHsb /\ [][NextHsb]_vars

-----------------------------------------------------------------------------
(***************************************************************************)
(* Properties                                                              *)
(***************************************************************************)

C2_PairwiseFar ==
    result.status = "ok" =>
        LET keys == DOMAIN color_count(image_data.image)
            out  == result.unique_colors
            Far(c1, c2) ==
                LET d == hsb_diff(rgb_to_hsb(c1), rgb_to_hsb(c2))
                IN F32Gt(d[1], Tenth) /\ F32Gt(d[2], Tenth) /\ F32Gt(d[3], Ten)
        IN \A i, j \in 1..Len(out) :
              i # j =>
                  /\ out[i] # out[j]
                  /\ \E ci, cj \in keys :
                        /\ hex_color(ci) = out[i]
                        /\ hex_color(cj) = out[j]
                        /\ Far(ci, cj)

\* two colours were returned and a third one was turned down
C2_Witness ==
    /\ result.status = "ok"
    /\ Len(result.unique_colors) = 2
    /\ Len(all_colors) = 3

(* C3: apply_orientation performs, for every 16-bit code, the operations   *)
(* of the table: 1 none, 2 horizontal flip, 3 rotation by 180, 4 vertical  *)
(* flip, 5 horizontal flip then rotation by 270 clockwise, 6 rotation by   *)
(* 90 clockwise, 7 horizontal flip then rotation by 90 clockwise, 8        *)
(* rotation by 270 clockwise, any other code none.                         *)
C3_OrientationTable ==
    oriented.some =>
        LET Table(o) ==
                CASE o = 1 -> <<>>
                  [] o = 2 -> <<"fliph">>
                  [] o = 3 -> <<"rotate180">>
                  [] o = 4 -> <<"flipv">>
                  [] o = 5 -> <<"fliph", "rotate270">>
                  [] o = 6 -> <<"rotate90">>
                  [] o = 7 -> <<"fliph", "rotate90">>
                  [] o = 8 -> <<"rotate270">>
                  [] OTHER -> <<>>
            Do(op, im) ==
                CASE op = "fliph"     -> fliph(im)
                  [] op = "flipv"     -> flipv(im)
                  [] op = "rotate90"  -> rotate90(im)
                  [] op = "rotate180" -> rotate180(im)
                  [] op = "rotate270" -> rotate270(im)
            Run(ops, im) ==
                IF Len(ops) = 0 THEN im
                ELSE IF Len(ops) = 1 THEN Do(ops[1], im)
                ELSE Do(ops[2], Do(ops[1], im))
        IN oriented.v = Run(Table(orientation.v), img.v)

\* code 5 has been applied to an image that is not square
C3_Witness ==
    /\ oriented.some
    /\ orientation.v = 5
    /\ Width(img.v) # Height(img.v)
    /\ oriented.v # img.v

(* C4: for each of the codes 1..8 and every pixel grid, undoing the steps  *)
(* of the code's table entry in reverse order (a flip undone by the same   *)
(* flip, a rotation by 90 by a rotation by 270 and conversely, a rotation  *)
(* by 180 by itself) gives back the original grid, width and height        *)
(* included.                                                               *)
C4_RoundTrip ==
    (oriented.some /\ orientation.v \in 1..8) =>
        LET Inverse(o) ==
                CASE o = 1 -> <<>>
                  [] o = 2 -> <<"fliph">>
                  [] o = 3 -> <<"rotate180">>
                  [] o = 4 -> <<"flipv">>
                  [] o = 5 -> <<"rotate90", "fliph">>
                  [] o = 6 -> <<"rotate270">>
                  [] o = 7 -> <<"rotate270", "fliph">>
                  [] o = 8 -> <<"rotate90">>
            Do(op, im) ==
                CASE op = "fliph"     -> fliph(im)
                  [] op = "flipv"     -> flipv(im)
                  [] op = "rotate90"  -> rotate90(im)
                  [] op = "rotate180" -> rotate180(im)
                  [] op = "rotate270" -> rotate270(im)
            Run(ops, im) ==
                IF Len(ops) = 0 THEN im
                ELSE IF Len(ops) = 1 THEN Do(ops[1], im)
                ELSE Do(ops[2], Do(ops[1], im))
            back == Run(Inverse(orientation.v), oriented.v)
        IN /\ back = img.v
           /\ Width(back) = Width(img.v)
           /\ Height(back) = Height(img.v)

\* code 7 has been applied to an image that is not square
C4_Witness ==
    /\ oriented.some
    /\ orientation.v = 7
    /\ Width(img.v) # Height(img.v)
    /\ Width(oriented.v) = Height(img.v)
    /\ oriented.v # img.v

(* C5, as claimed: the orientation code read_orientation produces is an    *)
(* integer in 1..8 for every input.                                        *)
C5_InOneToEight ==
    orientation.some => orientation.v \in 1..8

(* C5, amended: the orientation code read_orientation produces is an       *)
(* integer in 0..65535: 1 when the EXIF data, the orientation tag of the   *)
(* primary IFD or its unsigned value cannot be read, and the tag's value   *)
(* modulo 2^16 otherwise.                                                  *)
C5_SixteenBits ==
    orientation.some =>
        LET field == IF image_data.exif.ok
                     THEN get_field(image_data.exif, "Orientation", "PRIMARY")
                     ELSE None
            val   == IF field.some THEN get_uint(field.v.value, 0) ELSE None
        IN /\ orientation.v \in 0..65535
           /\ ~val.some => orientation.v = 1
           /\ val.some => orientation.v = val.v % 65536

\* a tag wider than 16 bits has been read as 6
C5_Witness ==
    /\ orientation.some
    /\ orientation.v = 6
    /\ image_data.exif.ok
    /\ \E i \in 1..Len(image_data.exif.fields) :
          /\ image_data.exif.fields[i].tag = "Orientation"
          /\ image_data.exif.fields[i].value.data = <<65542>>

(* C6: for every pixel, rgb_to_hsb returns a hue in [0, 360), a saturation *)
(* in [0, 1] and a brightness in [0, 1].                                   *)
C6_HsbRanges ==
    hsb.some =>
        LET hue        == hsb.v[1]
            saturation == hsb.v[2]
            brightness == hsb.v[3]
            one        == F32FromInt(1)
        IN /\ ~F32Lt(hue, F32Zero) /\ F32Lt(hue, F32FromInt(360))
           /\ ~F32Lt(saturation, F32Zero) /\ ~F32Gt(saturation, one)
           /\ ~F32Lt(brightness, F32Zero) /\ ~F32Gt(brightness, one)

(* C7: two analyze_image calls on the same bytes return the same unique    *)
(* colours in the same order.                                              *)
C7_Deterministic ==
    [][(result.status = "ok" /\ result'.status = "ok" /\ image_data' = image_data)
          => result'.unique_colors = result.unique_colors]_vars

(* C8: analyze_image aborts, returning nothing, exactly when the bytes do  *)
(* not decode; when only the EXIF parse fails, the record returned holds   *)
(* exactly one tag pair, whose first element is "Failed to read EXIF       *)
(* data", and the unique colours of the image.                             *)
C8_AbortOnlyOnDecode ==
    result.status # "none" =>
        /\ result.status = "panic" <=> ~image_data.decodable
        /\ result.status = "panic" =>
              DOMAIN result \cap {"exif_data", "unique_colors"} = {}
        /\ (image_data.decodable /\ ~image_data.exif.ok) =>
              /\ result.status = "ok"
              /\ Len(result.exif_data) = 1
              /\ result.exif_data[1][1] = "Failed to read EXIF data"
              /\ Len(result.unique_colors) >= 1
              /\ \A i \in 1..Len(result.unique_colors) :
                    \E c \in DOMAIN color_count(image_data.image) :
                        result.unique_colors[i] = hex_color(c)

\* an image without readable EXIF data has been analysed
C8_Witness ==
    /\ result.status = "ok"
    /\ ~image_data.exif.ok
    /\ Len(result.unique_colors) = 3

(* C9: resize_image fails only where the image is decoded or encoded. For  *)
(* a decodable image, an unreadable or absent orientation leaves the grid  *)
(* as decoded, a format tag outside the eight known ones selects png, a    *)
(* filter tag outside the five known ones selects triangle, and none of    *)
(* the three makes the call fail.                                          *)
C9_DefaultsNeverFail ==
    result.status # "none" =>
        LET Formats == [png |-> "Png", webp |-> "WebP", jpeg |-> "Jpeg",
                        avif |-> "Avif", bmp |-> "Bmp", gif |-> "Gif",
                        tiff |-> "Tiff", ico |-> "Ico"]
            Filters == [catmull_rom |-> "CatmullRom", gaussian |-> "Gaussian",
                        lanczos3 |-> "Lanczos3", nearest |-> "Nearest",
                        triangle |-> "Triangle"]
            field   == IF image_data.exif.ok
                       THEN get_field(image_data.exif, "Orientation", "PRIMARY")
                       ELSE None
            val     == IF field.some THEN get_uint(field.v.value, 0) ELSE None
        IN /\ result.status = "panic" =>
                 result.site \in {"load_from_memory", "write_to"}
           /\ (result.status = "panic" /\ result.site = "load_from_memory")
                 <=> ~image_data.decodable
           /\ image_data.decodable =>
                 \A format \in FormatTags, filter \in FilterTags :
                     resize_image(image_data, 1, 1, format, filter, TRUE).status = "ok"
           /\ result.status = "ok" =>
                 /\ result.bytes.format =
                        IF request.v.format \in DOMAIN Formats
                        THEN Formats[request.v.format] ELSE "Png"
                 /\ result.bytes.image.filter =
                        IF request.v.filter \in DOMAIN Filters
                        THEN Filters[request.v.filter] ELSE "Triangle"
                 /\ ~val.some =>
                        /\ orientation.v = 1
                        /\ result.bytes.image.source = image_data.image.rows

\* all three defaults were taken in one successful call
C9_Witness ==
    /\ result.status = "ok"
    /\ ~image_data.exif.ok
    /\ request.v.format = "jpg"
    /\ request.v.filter = "bilinear"
    /\ result.bytes.format = "Png"

=============================================================================
